---- MODULE Spec2Model ----
(***************************************************************************)
(* Typed codecs of the date based HTTP headers                             *)
(* (src/src/httpcommon/headers/date_based.rs): the uint, Tm, Expires and   *)
(* RetryAfter implementations of the Header trait, and the header          *)
(* container the tests drive them through.                                 *)
(*                                                                         *)
(* A field is a sequence of bytes; a byte is a one character string, or    *)
(* BadByte, a byte (0xFF) that occurs in no UTF-8 text.  Option<T> is a    *)
(* sequence: None is << >> and Some(x) is <<x>>.                           *)
(*                                                                         *)
(* The calls the file makes into the Rust distribution of its time         *)
(* (std::from_str, time::strptime, Tm::to_utc, Tm::strftime) are modelled  *)
(* by what those functions do on the modelled inputs; each is mapped to    *)
(* the line that calls it.  A read past the end of the text is a failed    *)
(* match.                                                                  *)
(***************************************************************************)
EXTENDS Integers, Sequences, FiniteSets, TLC

VARIABLES pc, call, ret, headers, last_set, nops

vars == <<pc, call, ret, headers, last_set, nops>>

(***************************************************************************)
(* Bounds of the model.                                                    *)
(***************************************************************************)
\* width of the machine word uint, scaled down so that overflow is reachable
UintBits == 8
\* number of container operations in one run of SpecHeaders
MaxOps == 3

None == << >>
Some(x) == <<x>>

BadByte == "0xFF"

DigitChars == {"0", "1", "2", "3", "4", "5", "6", "7", "8", "9"}

DigitVal(c) ==
  CASE c = "0" -> 0 [] c = "1" -> 1 [] c = "2" -> 2 [] c = "3" -> 3
    [] c = "4" -> 4 [] c = "5" -> 5 [] c = "6" -> 6 [] c = "7" -> 7
    [] c = "8" -> 8 [] c = "9" -> 9

DigitChar(d) == <<"0", "1", "2", "3", "4", "5", "6", "7", "8", "9">>[d + 1]

\* std::str::from_utf8: Some(text) iff the bytes are valid UTF-8
from_utf8(bytes) ==
  IF \A i \in 1..Len(bytes) : bytes[i] # BadByte THEN Some(bytes) ELSE None

(***************************************************************************)
(* require_single_field!: the one field of a raw field set, or the early   *)
(* return of None for any other number of fields.                          *)
(***************************************************************************)
require_single_field(raw) ==
  IF Len(raw) = 1 THEN Some(raw[1]) ELSE None

(***************************************************************************)
(* The integer codec.                                                      *)
(***************************************************************************)
UintModulus == 2 ^ UintBits

\* the digit loop of from_str::<uint>: shift, add, detect overflow by
\* comparing with the last value and by reversing the shift-and-add
RECURSIVE from_str_digits(_, _, _)
from_str_digits(s, i, last_accum) ==
  IF i > Len(s) THEN Some(last_accum)
  ELSE IF s[i] \notin DigitChars THEN None
  ELSE LET digit == DigitVal(s[i])
           accum == (last_accum * 10 + digit) % UintModulus
       IN  IF last_accum # 0 /\ accum <= last_accum THEN None
           ELSE IF last_accum # 0
                   /\ last_accum # ((accum - digit) % UintModulus) \div 10
                THEN None
           ELSE from_str_digits(s, i + 1, accum)

\* from_str::<uint>: radix 10, no negative numbers, an optional leading '+',
\* at least one digit, None on overflow
from_str_uint(s) ==
  IF Len(s) = 0 THEN None
  ELSE IF s[1] = "-" THEN None
  ELSE LET start == IF s[1] = "+" THEN 2 ELSE 1
       IN  IF start > Len(s) THEN None
           ELSE from_str_digits(s, start, 0)

\* uint::to_str: the decimal digits, most significant first, no padding
RECURSIVE to_str(_)
to_str(n) ==
  IF n < 10 THEN <<DigitChar(n)>>
  ELSE to_str(n \div 10) \o <<DigitChar(n % 10)>>

uint_parse_header(raw) ==
  LET field == require_single_field(raw)
  IN  IF field = None THEN None
      ELSE LET text == from_utf8(field[1])
           IN  IF text = None THEN None
               ELSE from_str_uint(text[1])

uint_fmt_header(n) == to_str(n)

(***************************************************************************)
(* time::Tm and time::strptime.                                            *)
(***************************************************************************)
\* the Tm strptime starts from: every field zero, no zone name
EmptyTm ==
  [tm_sec |-> 0, tm_min |-> 0, tm_hour |-> 0, tm_mday |-> 0, tm_mon |-> 0,
   tm_year |-> 0, tm_wday |-> 0, tm_yday |-> 0, tm_isdst |-> 0,
   tm_gmtoff |-> 0, tm_zone |-> "", tm_nsec |-> 0]

Chars3(a, b, c) == <<a, b, c>>

DayAbbr ==
  << Chars3("S","u","n"), Chars3("M","o","n"), Chars3("T","u","e"),
     Chars3("W","e","d"), Chars3("T","h","u"), Chars3("F","r","i"),
     Chars3("S","a","t") >>

DayFull ==
  << DayAbbr[1] \o <<"d","a","y">>,
     DayAbbr[2] \o <<"d","a","y">>,
     DayAbbr[3] \o <<"s","d","a","y">>,
     DayAbbr[4] \o <<"n","e","s","d","a","y">>,
     DayAbbr[5] \o <<"r","s","d","a","y">>,
     DayAbbr[6] \o <<"d","a","y">>,
     DayAbbr[7] \o <<"u","r","d","a","y">> >>

MonAbbr ==
  << Chars3("J","a","n"), Chars3("F","e","b"), Chars3("M","a","r"),
     Chars3("A","p","r"), Chars3("M","a","y"), Chars3("J","u","n"),
     Chars3("J","u","l"), Chars3("A","u","g"), Chars3("S","e","p"),
     Chars3("O","c","t"), Chars3("N","o","v"), Chars3("D","e","c") >>

match_str(s, pos, needle) ==
  /\ pos + Len(needle) - 1 <= Len(s)
  /\ SubSeq(s, pos, pos + Len(needle) - 1) = needle

\* the first name of strs found at pos: <<its index - 1, the next position>>
match_strs(s, pos, strs) ==
  LET hits == {i \in 1..Len(strs) : match_str(s, pos, strs[i])}
  IN  IF hits = {} THEN None
      ELSE LET i == CHOOSE m \in hits : \A h \in hits : m <= h
           IN  Some(<<i - 1, pos + Len(strs[i])>>)

\* exactly `digits` characters, each a digit (or a blank when ws)
RECURSIVE match_digits_value(_, _, _, _, _)
match_digits_value(s, pos, digits, ws, value) ==
  IF digits = 0 THEN Some(<<value, pos>>)
  ELSE IF pos > Len(s) THEN None
  ELSE IF s[pos] \in DigitChars
       THEN match_digits_value(s, pos + 1, digits - 1, ws,
                               value * 10 + DigitVal(s[pos]))
  ELSE IF ws /\ s[pos] = " "
       THEN match_digits_value(s, pos + 1, digits - 1, ws, value)
  ELSE None

match_digits(s, pos, digits, ws) == match_digits_value(s, pos, digits, ws, 0)

\* a match_digits result, kept only when the value is in min..max
in_range(m, min, max) ==
  IF m # None /\ m[1][1] >= min /\ m[1][1] <= max THEN m ELSE None

match_digits_in_range(s, pos, digits, ws, min, max) ==
  in_range(match_digits(s, pos, digits, ws), min, max)

\* the result of one conversion: whether it matched, where the text
\* continues, and the Tm so far
PErr(tm) == [ok |-> FALSE, pos |-> 0, tm |-> tm]
POk(pos, tm) == [ok |-> TRUE, pos |-> pos, tm |-> tm]

\* what parse_type does with a match m of a name or a number: no match is
\* an error, a match sets one field of the Tm to the value plus adjust
store(tm, field, m, adjust) ==
  IF m = None THEN PErr(tm)
  ELSE POk(m[1][2], [tm EXCEPT ![field] = m[1][1] + adjust])

\* what %z does with the four digits m after the sign: only an offset of
\* zero changes the Tm
store_offset(tm, m) ==
  IF m = None THEN PErr(tm)
  ELSE IF m[1][1] = 0
       THEN POk(m[1][2], [tm EXCEPT !.tm_gmtoff = 0, !.tm_zone = "UTC"])
  ELSE POk(m[1][2], tm)

\* the zone name %Z skips: everything up to and including the next blank
RECURSIVE skip_zone(_, _)
skip_zone(s, pos) ==
  IF pos > Len(s) THEN pos
  ELSE IF s[pos] = " " THEN pos + 1
  ELSE skip_zone(s, pos + 1)

Directives ==
  {"%a", "%A", "%b", "%c", "%d", "%e", "%H", "%M", "%S", "%T", "%Y", "%y",
   "%Z", "%z"}

RECURSIVE parse_type(_, _, _, _)
RECURSIVE parse_items(_, _, _, _)

\* strptime's parse_type: one conversion specification at pos
parse_type(s, pos, ch, tm) ==
  CASE ch = "%a" -> store(tm, "tm_wday", match_strs(s, pos, DayAbbr), 0)
    [] ch = "%A" -> store(tm, "tm_wday", match_strs(s, pos, DayFull), 0)
    [] ch = "%b" -> store(tm, "tm_mon", match_strs(s, pos, MonAbbr), 0)
    [] ch = "%d" ->
         store(tm, "tm_mday", match_digits_in_range(s, pos, 2, FALSE, 1, 31), 0)
    [] ch = "%e" ->
         store(tm, "tm_mday", match_digits_in_range(s, pos, 2, TRUE, 1, 31), 0)
    [] ch = "%H" ->
         store(tm, "tm_hour", match_digits_in_range(s, pos, 2, FALSE, 0, 23), 0)
    [] ch = "%M" ->
         store(tm, "tm_min", match_digits_in_range(s, pos, 2, FALSE, 0, 59), 0)
    [] ch = "%S" ->
         store(tm, "tm_sec", match_digits_in_range(s, pos, 2, FALSE, 0, 60), 0)
    [] ch = "%Y" -> store(tm, "tm_year", match_digits(s, pos, 4, FALSE), -1900)
    [] ch = "%y" ->
         store(tm, "tm_year", match_digits_in_range(s, pos, 2, FALSE, 0, 99), 0)
    [] ch = "%T" ->
         parse_items(s, <<"%H", ":", "%M", ":", "%S">>, 1, POk(pos, tm))
    [] ch = "%c" ->
         parse_items(s, <<"%a", " ", "%b", " ", "%e", " ", "%T", " ", "%Y">>,
                     1, POk(pos, tm))
    [] ch = "%Z" ->
         IF match_str(s, pos, <<"U","T","C">>) \/ match_str(s, pos, <<"G","M","T">>)
         THEN POk(pos + 3, [tm EXCEPT !.tm_gmtoff = 0, !.tm_zone = "UTC"])
         ELSE POk(skip_zone(s, pos), tm)
    [] ch = "%z" ->
         IF pos <= Len(s) /\ s[pos] \in {"+", "-"}
         THEN store_offset(tm, match_digits(s, pos + 1, 4, FALSE))
         ELSE PErr(tm)

\* one item of a format at the place st: a conversion specification, or a
\* literal character that must be the next character of the text
parse_item(s, item, st) ==
  IF item \in Directives THEN parse_type(s, st.pos, item, st.tm)
  ELSE IF st.pos <= Len(s) /\ s[st.pos] = item THEN POk(st.pos + 1, st.tm)
  ELSE PErr(st.tm)

\* the conversions a composite conversion (%T, %c) chains: every item in
\* turn, until one fails
parse_items(s, items, k, st) ==
  IF ~st.ok \/ k > Len(items) THEN st
  ELSE parse_items(s, items, k + 1, parse_item(s, items[k], st))

\* strptime's main loop: it runs while text is left, reads the next
\* character of the format, and succeeds iff text and format end together
RECURSIVE strptime_loop(_, _, _, _)
strptime_loop(s, format, k, st) ==
  IF ~st.ok THEN None
  ELSE IF st.pos > Len(s)
       THEN IF k > Len(format) THEN Some(st.tm) ELSE None
  ELSE IF k > Len(format) THEN None
  ELSE strptime_loop(s, format, k + 1, parse_item(s, format[k], st))

strptime(s, format) == strptime_loop(s, format, 1, POk(1, EmptyTm))

\* "%a, %d %b %Y %T %Z"
FormatRfc1123 ==
  <<"%a", ",", " ", "%d", " ", "%b", " ", "%Y", " ", "%T", " ", "%Z">>
\* "%a, %d %b %Y %T %z"
FormatRfc1123Offset ==
  <<"%a", ",", " ", "%d", " ", "%b", " ", "%Y", " ", "%T", " ", "%z">>
\* "%A, %d-%b-%y %T %Z"
FormatRfc850 ==
  <<"%A", ",", " ", "%d", "-", "%b", "-", "%y", " ", "%T", " ", "%Z">>
\* "%c"
FormatAsctime == <<"%c">>

\* the formats in the order Tm::parse_header tries them
Grammars == <<FormatRfc1123, FormatRfc1123Offset, FormatRfc850, FormatAsctime>>

(***************************************************************************)
(* Tm::to_utc and Tm::strftime.  A Timespec is a day number since          *)
(* 1970-01-01, the second of that day and the nanosecond of that second.   *)
(***************************************************************************)
SecsPerDay == 86400

days_from_civil(y, m, d) ==
  LET yy == IF m <= 2 THEN y - 1 ELSE y
      era == yy \div 400
      yoe == yy - era * 400
      mp == IF m > 2 THEN m - 3 ELSE m + 9
      doy == (153 * mp + 2) \div 5 + d - 1
      doe == yoe * 365 + yoe \div 4 - yoe \div 100 + doy
  IN  era * 146097 + doe - 719468

civil_from_days(z) ==
  LET zz == z + 719468
      era == zz \div 146097
      doe == zz - era * 146097
      yoe == (doe - doe \div 1460 + doe \div 36524 - doe \div 146096) \div 365
      doy == doe - (365 * yoe + yoe \div 4 - yoe \div 100)
      mp == (5 * doy + 2) \div 153
      d == doy - (153 * mp + 2) \div 5 + 1
      m == IF mp < 10 THEN mp + 3 ELSE mp - 9
      y == yoe + era * 400 + (IF m <= 2 THEN 1 ELSE 0)
  IN  [year |-> y, mon |-> m, mday |-> d]

\* Tm::to_timespec: the fields read as a time of the zone tm_gmtoff names
\* (timegm for offset 0, mktime in the zone the Tm was made in otherwise);
\* fields out of range carry over
to_timespec(tm) ==
  LET secs == tm.tm_hour * 3600 + tm.tm_min * 60 + tm.tm_sec - tm.tm_gmtoff
      day == days_from_civil(tm.tm_year + 1900, tm.tm_mon + 1, 1)
               + tm.tm_mday - 1 + secs \div SecsPerDay
  IN  [day |-> day, sec |-> secs % SecsPerDay, nsec |-> tm.tm_nsec]

\* the broken down time of a Timespec at the offset gmtoff
tm_at(ts, gmtoff, zone) ==
  LET secs == ts.sec + gmtoff
      day == ts.day + secs \div SecsPerDay
      sod == secs % SecsPerDay
      c == civil_from_days(day)
  IN  [tm_sec |-> sod % 60, tm_min |-> (sod \div 60) % 60,
       tm_hour |-> sod \div 3600, tm_mday |-> c.mday, tm_mon |-> c.mon - 1,
       tm_year |-> c.year - 1900, tm_wday |-> (day + 4) % 7,
       tm_yday |-> day - days_from_civil(c.year, 1, 1), tm_isdst |-> 0,
       tm_gmtoff |-> gmtoff, tm_zone |-> zone, tm_nsec |-> ts.nsec]

\* time::at_utc
at_utc(ts) == tm_at(ts, 0, "UTC")

\* time::at in a zone gmtoff seconds east of Greenwich
at(ts, gmtoff) == tm_at(ts, gmtoff, IF gmtoff = 0 THEN "UTC" ELSE "LOCAL")

to_utc(tm) == at_utc(to_timespec(tm))

pad2(n) == <<DigitChar((n \div 10) % 10), DigitChar(n % 10)>>

\* Tm::strftime("%a, %d %b %Y %T GMT")
strftime_rfc1123_gmt(tm) ==
  DayAbbr[tm.tm_wday + 1] \o <<",", " ">> \o pad2(tm.tm_mday) \o <<" ">>
    \o MonAbbr[tm.tm_mon + 1] \o <<" ">> \o to_str(tm.tm_year + 1900)
    \o <<" ">> \o pad2(tm.tm_hour) \o <<":">> \o pad2(tm.tm_min) \o <<":">>
    \o pad2(tm.tm_sec) \o <<" ", "G", "M", "T">>

(***************************************************************************)
(* The date codec.                                                         *)
(***************************************************************************)
\* one match of Tm::parse_header: the result of a grammar that accepted,
\* or what the code after the match does
first_ok(time, tried, otherwise) ==
  IF time # None THEN [result |-> time, tried |-> tried] ELSE otherwise

\* Tm::parse_header with the numeric offset grammar tried before the zone
\* name grammar
Tm_parse_text_offset_first(text) ==
  first_ok(strptime(text, FormatRfc1123Offset), <<2>>,
    first_ok(strptime(text, FormatRfc1123), <<2, 1>>,
      first_ok(strptime(text, FormatRfc850), <<2, 1, 3>>,
        [result |-> strptime(text, FormatAsctime), tried |-> <<2, 1, 3, 4>>])))

\* Tm::parse_header from the text on, with the grammars it consulted in the
\* order it consulted them
Tm_parse_text(text) ==
  first_ok(strptime(text, FormatRfc1123), <<1>>,
    first_ok(strptime(text, FormatRfc1123Offset), <<1, 2>>,
      first_ok(strptime(text, FormatRfc850), <<1, 2, 3>>,
        [result |-> strptime(text, FormatAsctime), tried |-> <<1, 2, 3, 4>>])))

Tm_parse_trace(raw) ==
  LET field == require_single_field(raw)
  IN  IF field = None THEN [result |-> None, tried |-> << >>]
      ELSE IF from_utf8(field[1]) = None
           THEN [result |-> None, tried |-> << >>]
      ELSE Tm_parse_text(field[1])

Tm_parse_header(raw) == Tm_parse_trace(raw).result

\* Tm::fmt_header formatting the time of a zone an hour east of Greenwich
Tm_fmt_header_local(tm) ==
  strftime_rfc1123_gmt(tm_at(to_timespec(tm), 3600, "LOCAL"))

Tm_fmt_header(tm) == strftime_rfc1123_gmt(to_utc(tm))

(***************************************************************************)
(* The Expires codec.                                                      *)
(***************************************************************************)
Past == [tag |-> "Past", tm |-> EmptyTm]
ExpiresDate(tm) == [tag |-> "ExpiresDate", tm |-> tm]

\* the match with its None arm handing the failure on
Expires_of_propagating(tm) ==
  IF tm # None THEN Some(ExpiresDate(tm[1])) ELSE None

\* the match on the date codec's result
Expires_of(tm) ==
  IF tm # None THEN Some(ExpiresDate(tm[1])) ELSE Some(Past)

\* Expires::parse_header without its require_single_field! line
Expires_parse_header_unchecked(raw) == Expires_of(Tm_parse_header(raw))

Expires_parse_header(raw) ==
  IF require_single_field(raw) = None THEN None
  ELSE Expires_of(Tm_parse_header(raw))

\* Expires::fmt_header writing nothing for Past
Expires_fmt_header_past_empty(e) ==
  IF e.tag = "Past" THEN << >> ELSE Tm_fmt_header(e.tm)

Expires_fmt_header(e) ==
  IF e.tag = "Past" THEN <<"0">> ELSE Tm_fmt_header(e.tm)

(***************************************************************************)
(* The Retry-After codec.                                                  *)
(***************************************************************************)
DateRA(tm) == [tag |-> "DateRA", tm |-> tm, delta |-> 0]
DeltaRA(n) == [tag |-> "DeltaRA", tm |-> EmptyTm, delta |-> n]

\* the match without the integer codec's arm
RetryAfter_of_date_only(tm, delta) ==
  IF tm # None THEN Some(DateRA(tm[1])) ELSE None

\* the match on the date codec's result and, inside it, the match on the
\* integer codec's
RetryAfter_of(tm, delta) ==
  IF tm # None THEN Some(DateRA(tm[1]))
  ELSE IF delta # None THEN Some(DeltaRA(delta[1]))
  ELSE None

RetryAfter_parse_header(raw) ==
  IF require_single_field(raw) = None THEN None
  ELSE RetryAfter_of(Tm_parse_header(raw), uint_parse_header(raw))

RetryAfter_fmt_header(r) ==
  IF r.tag = "DeltaRA" THEN uint_fmt_header(r.delta) ELSE Tm_fmt_header(r.tm)

(***************************************************************************)
(* The inputs: fields as they come off the wire, and typed values.         *)
(***************************************************************************)
\* most fields of a raw field set of several fields
MaxFields == 2

WeekdayTexts == {DayAbbr[5], DayAbbr[2]}
DayTexts == {<<"0","1">>, <<"3","1">>}
MonthTexts == {MonAbbr[12], MonAbbr[2]}
YearTexts == {<<"1","9","9","4">>, <<"2","0","0","0">>}
TimeTexts ==
  {<<"1","6",":","0","0",":","0","0">>, <<"2","3",":","5","9",":","6","0">>}
ZoneTexts ==
  {<<"G","M","T">>, <<"U","T","C">>, <<"E","S","T">>,
   <<"+","0","0","0","0">>, <<"+","0","1","0","0">>, <<"-","0","5","0","0">>}

\* "Thu, 01 Dec 1994 16:00:00 GMT" and its variations
Rfc1123Fields ==
  {w \o <<",", " ">> \o d \o <<" ">> \o m \o <<" ">> \o y \o <<" ">> \o t
     \o <<" ">> \o z :
     w \in WeekdayTexts, d \in DayTexts, m \in MonthTexts, y \in YearTexts,
     t \in TimeTexts, z \in ZoneTexts}

\* "Thursday, 01-Dec-94 16:00:00 GMT" and its variations
Rfc850Fields ==
  {w \o <<",", " ">> \o d \o <<"-">> \o m \o <<"-">> \o y \o <<" ">> \o t
     \o <<" ">> \o z :
     w \in {DayFull[5], DayFull[2]}, d \in DayTexts, m \in {MonAbbr[12]},
     y \in {<<"9","4">>, <<"0","0">>}, t \in {<<"1","6",":","0","0",":","0","0">>},
     z \in {<<"G","M","T">>, <<"E","S","T">>}}

\* "Thu Dec  1 16:00:00 1994" and its variations
AsctimeFields ==
  {w \o <<" ">> \o m \o <<" ">> \o d \o <<" ">> \o t \o <<" ">> \o y :
     w \in WeekdayTexts, m \in MonthTexts, d \in {<<" ","1">>, <<"3","1">>},
     t \in {<<"1","6",":","0","0",":","0","0">>}, y \in YearTexts}

CanonicalExample ==
  DayAbbr[5] \o <<",", " ", "0", "1", " ">> \o MonAbbr[12]
    \o <<" ", "1", "9", "9", "4", " ", "1", "6", ":", "0", "0", ":", "0", "0",
         " ", "G", "M", "T">>

Text42 == <<"4", "2">>
Text24 == <<"2", "4">>
TextFoo == <<"f", "o", "o">>
TextBogus == <<"b", "o", "g", "u", "s">>
TextMinus42 == <<"-", "4", "2">>
TextPlus42 == <<"+", "4", "2">>
Text120 == <<"1", "2", "0">>

NumberFields ==
  {<<"0">>, Text42, Text24, Text120, <<"0", "4", "2">>, <<"0", "0">>,
   TextMinus42, TextPlus42, <<"+">>, <<"-">>,
   to_str(UintModulus - 1), to_str(UintModulus), to_str(UintModulus + 1),
   to_str(10 * UintModulus), <<"9", "9", "9", "9", "9">>,
   <<"4", "x">>, <<"1", "e">>, <<"4", " ">>, <<" ", "4">>, <<"4", ".", "0">>}

MalformedFields ==
  {<< >>, TextFoo, TextBogus, <<BadByte>>, <<"4", BadByte>>,
   CanonicalExample \o <<BadByte>>,
   CanonicalExample \o <<" ">>,
   SubSeq(CanonicalExample, 1, 25),
   SubSeq(CanonicalExample, 1, 26),
   SubSeq(CanonicalExample, 1, 11),
   <<"t">> \o SubSeq(CanonicalExample, 2, 29),
   DayFull[5] \o SubSeq(CanonicalExample, 4, 29),
   SubSeq(CanonicalExample, 1, 5) \o <<"3", "2">> \o SubSeq(CanonicalExample, 8, 29),
   SubSeq(CanonicalExample, 1, 12) \o SubSeq(CanonicalExample, 15, 29),
   SubSeq(CanonicalExample, 1, 17) \o <<"2", "4">> \o SubSeq(CanonicalExample, 20, 29)}

Fields == Rfc1123Fields \cup Rfc850Fields \cup AsctimeFields
            \cup NumberFields \cup MalformedFields

\* the fields of the raw field sets of several fields
MultiFields == {CanonicalExample, Text42, Text24, <<"0">>, TextBogus}

RECURSIVE SeqsOfLen(_, _)
SeqsOfLen(S, n) ==
  IF n = 0 THEN {<< >>}
  ELSE {Append(q, x) : q \in SeqsOfLen(S, n - 1), x \in S}

RawFieldSets ==
  {<< >>} \cup {<<f>> : f \in Fields}
    \cup UNION {SeqsOfLen(MultiFields, n) : n \in 2..MaxFields}

\* the instants a clock gives: 1994-12-01 and 2000-02-29, at 16:00:00 and
\* at 23:59:59, on the second and half a second later
Timespecs ==
  [day : {9100, 11016}, sec : {57600, 86399}, nsec : {0, 500000000}]

\* the offsets of the zones a Tm is made in
Offsets == {0, 3600, -18000}

\* time::now() and time::now_utc() at those instants
ClockTms == {at(ts, off) : ts \in Timespecs, off \in Offsets}

\* Tm values as strptime leaves them: the fields the text names, a weekday
\* that may not be the date's, no day of the year, offset 0, whole seconds
DecodedTms ==
  [tm_sec : {0, 60}, tm_min : {0, 59}, tm_hour : {16, 23}, tm_mday : {1, 31},
   tm_mon : {1, 11}, tm_year : {0, 94, 100}, tm_wday : {1, 4}, tm_yday : {0},
   tm_isdst : {0}, tm_gmtoff : {0}, tm_zone : {"UTC", ""}, tm_nsec : {0}]

Timestamps == ClockTms \cup DecodedTms

UintValues == {0, 9, 10, 42, 120, UintModulus - 1}

ExpiresValues == {Past} \cup {ExpiresDate(tm) : tm \in Timestamps}

RetryAfterValues ==
  {DeltaRA(n) : n \in UintValues} \cup {DateRA(tm) : tm \in Timestamps}

(***************************************************************************)
(* The codecs as a state machine: a caller is idle, calls parse_header or  *)
(* fmt_header of one value type, and takes the result.                     *)
(*   pc      "idle" or "returned"                                          *)
(*   call    the call made: op, the value type, the raw field set given    *)
(*           to parse_header, the value given to fmt_header, and for the   *)
(*           date codec the grammars it consulted                          *)
(*   ret     what the call returned: an Option for parse_header, the       *)
(*           bytes written for fmt_header                                  *)
(*   headers the raw field set the header container stores per name        *)
(*   last_set  history: per name, the value of the last set that no remove *)
(*           followed, as an Option                                        *)
(*   nops    the number of container operations made                       *)
(***************************************************************************)
NoCall == [op |-> "none", type |-> "none", name |-> "", raw |-> << >>,
           val |-> 0, tried |-> << >>]

ParseCall(type, raw, tried) ==
  [op |-> "parse_header", type |-> type, name |-> "", raw |-> raw, val |-> 0,
   tried |-> tried]

\* parse_header was called and returned
Parsed(type, raw, trace) ==
  /\ call' = ParseCall(type, raw, trace.tried)
  /\ ret' = trace.result

FmtCall(type, val) ==
  [op |-> "fmt_header", type |-> type, name |-> "", raw |-> << >>,
   val |-> val, tried |-> << >>]

\* header!(NAME, "name", Type): the six identities and their value types
HeaderType ==
  [n \in {"expires", "date", "if-modified-since", "if-unmodified-since",
          "last-modified", "retry-after"} |->
     IF n = "expires" THEN "Expires"
     ELSE IF n = "retry-after" THEN "RetryAfter"
     ELSE "Tm"]

HeaderNames == DOMAIN HeaderType

Init ==
  /\ pc = "idle"
  /\ call = NoCall
  /\ ret = None
  /\ headers = [n \in HeaderNames |-> << >>]
  /\ last_set = [n \in HeaderNames |-> None]
  /\ nops = 0

uint_parse ==
  /\ pc = "idle"
  /\ \E raw \in RawFieldSets :
       /\ call' = ParseCall("uint", raw, << >>)
       /\ ret' = uint_parse_header(raw)
  /\ pc' = "returned"
  /\ UNCHANGED <<headers, last_set, nops>>

Tm_parse ==
  /\ pc = "idle"
  /\ \E raw \in RawFieldSets :
       Parsed("Tm", raw, Tm_parse_trace(raw))
  /\ pc' = "returned"
  /\ UNCHANGED <<headers, last_set, nops>>

Expires_parse ==
  /\ pc = "idle"
  /\ \E raw \in RawFieldSets :
       /\ call' = ParseCall("Expires", raw, << >>)
       /\ ret' = Expires_parse_header(raw)
  /\ pc' = "returned"
  /\ UNCHANGED <<headers, last_set, nops>>

RetryAfter_parse ==
  /\ pc = "idle"
  /\ \E raw \in RawFieldSets :
       /\ call' = ParseCall("RetryAfter", raw, << >>)
       /\ ret' = RetryAfter_parse_header(raw)
  /\ pc' = "returned"
  /\ UNCHANGED <<headers, last_set, nops>>

uint_fmt ==
  /\ pc = "idle"
  /\ \E n \in UintValues :
       /\ call' = FmtCall("uint", n)
       /\ ret' = uint_fmt_header(n)
  /\ pc' = "returned"
  /\ UNCHANGED <<headers, last_set, nops>>

Tm_fmt ==
  /\ pc = "idle"
  /\ \E tm \in Timestamps :
       /\ call' = FmtCall("Tm", tm)
       /\ ret' = Tm_fmt_header(tm)
  /\ pc' = "returned"
  /\ UNCHANGED <<headers, last_set, nops>>

Expires_fmt ==
  /\ pc = "idle"
  /\ \E e \in ExpiresValues :
       /\ call' = FmtCall("Expires", e)
       /\ ret' = Expires_fmt_header(e)
  /\ pc' = "returned"
  /\ UNCHANGED <<headers, last_set, nops>>

RetryAfter_fmt ==
  /\ pc = "idle"
  /\ \E r \in RetryAfterValues :
       /\ call' = FmtCall("RetryAfter", r)
       /\ ret' = RetryAfter_fmt_header(r)
  /\ pc' = "returned"
  /\ UNCHANGED <<headers, last_set, nops>>

\* the caller takes the result and is ready for the next call
Return ==
  /\ pc = "returned"
  /\ pc' = "idle"
  /\ call' = NoCall
  /\ ret' = None
  /\ UNCHANGED <<headers, last_set, nops>>

Next ==
  \/ uint_parse \/ Tm_parse \/ Expires_parse \/ RetryAfter_parse
  \/ uint_fmt \/ Tm_fmt \/ Expires_fmt \/ RetryAfter_fmt
  \/ Return

Spec == Init /\ [][Next]_vars

(***************************************************************************)
(* The header container, Headers: get decodes the raw field set stored     *)
(* for the name, set encodes the value and stores the bytes as the one     *)
(* field of the name, remove drops what is stored.                         *)
(***************************************************************************)
\* Header::parse_header of the value type of a name
Header_parse_header(type, raw) ==
  CASE type = "Tm" -> Tm_parse_header(raw)
    [] type = "Expires" -> Expires_parse_header(raw)
    [] type = "RetryAfter" -> RetryAfter_parse_header(raw)

\* fmt_header of a value of the value type of a name
Header_fmt_header(type, val) ==
  CASE type = "Tm" -> Tm_fmt_header(val)
    [] type = "Expires" -> Expires_fmt_header(val)
    [] type = "RetryAfter" -> RetryAfter_fmt_header(val)

\* the values the tests and a caller set: the clock read on the second and
\* within a second, in UTC and in a zone east of it
SetTms ==
  {at([day |-> 9100, sec |-> 57600, nsec |-> ns], off) :
     ns \in {0, 500000000}, off \in {0, 3600}}

SetValues(type) ==
  CASE type = "Tm" -> SetTms
    [] type = "Expires" ->
         {Past} \cup {ExpiresDate(tm) : tm \in {x \in SetTms : x.tm_gmtoff = 0}}
    [] type = "RetryAfter" ->
         {DeltaRA(0), DeltaRA(120)}
           \cup {DateRA(tm) : tm \in {x \in SetTms : x.tm_gmtoff = 0}}

ContainerCall(op, name, raw, val) ==
  [op |-> op, type |-> HeaderType[name], name |-> name, raw |-> raw,
   val |-> val, tried |-> << >>]

Headers_get ==
  /\ nops < MaxOps
  /\ \E name \in HeaderNames :
       /\ call' = ContainerCall("get", name, headers[name], 0)
       /\ ret' = Header_parse_header(HeaderType[name], headers[name])
  /\ nops' = nops + 1
  /\ UNCHANGED <<pc, headers, last_set>>

Headers_set ==
  /\ nops < MaxOps
  /\ \E name \in HeaderNames :
       \E val \in SetValues(HeaderType[name]) :
         /\ headers' = [headers EXCEPT
                          ![name] = <<Header_fmt_header(HeaderType[name], val)>>]
         /\ last_set' = [last_set EXCEPT ![name] = Some(val)]
         /\ call' = ContainerCall("set", name, headers'[name], val)
  /\ ret' = None
  /\ nops' = nops + 1
  /\ UNCHANGED pc

Headers_remove ==
  /\ nops < MaxOps
  /\ \E name \in HeaderNames :
       /\ headers' = [headers EXCEPT ![name] = << >>]
       /\ last_set' = [last_set EXCEPT ![name] = None]
       /\ call' = ContainerCall("remove", name, << >>, 0)
  /\ ret' = None
  /\ nops' = nops + 1
  /\ UNCHANGED pc

NextHeaders == Headers_get \/ Headers_set \/ Headers_remove

SpecHeaders == Init /\ [][NextHeaders]_vars

(***************************************************************************)
(* The properties.                                                         *)
(***************************************************************************)
Returned(op, type) == pc = "returned" /\ call.op = op /\ call.type = type

\* two Tm values name the same instant
SameInstant(a, b) == to_timespec(a) = to_timespec(b)

\* the last n elements of a sequence
Tail_n(s, n) == SubSeq(s, Len(s) - n + 1, Len(s))

\* C1: every codec (uint, Tm, Expires, RetryAfter) returns None for a raw
\* field set of 0 or of 2 and more fields, whatever the fields hold, and
\* the single field check succeeds iff the set has exactly one field.
C1_NotOneFieldIsAbsent ==
  (pc = "returned" /\ call.op = "parse_header") =>
    /\ Len(call.raw) # 1 => ret = None
    /\ require_single_field(call.raw) # None <=> Len(call.raw) = 1

\* two fields that each decode on their own: "42" and "24" for Retry-After
C1_Witness ==
  /\ Returned("parse_header", "RetryAfter")
  /\ call.raw = <<Text42, Text24>>
  /\ RetryAfter_parse_header(<<Text42>>) # None
  /\ RetryAfter_parse_header(<<Text24>>) # None
  /\ ret = None

\* C2: Expires decode of exactly one field is never None: it is
\* ExpiresDate(t) exactly when the date codec decodes the field to t and
\* Past in every other case; it is None only when the field count is not 1.
C2_ExpiresTotalOnOneField ==
  Returned("parse_header", "Expires") =>
    /\ ret = None <=> Len(call.raw) # 1
    /\ Len(call.raw) = 1 =>
         LET date == Tm_parse_header(call.raw)
         IN  /\ date # None => ret = Some(ExpiresDate(date[1]))
             /\ date = None => ret = Some(Past)
             /\ ret[1].tag = "ExpiresDate" => date # None
    /\ call.raw = <<TextBogus>> => ret = Some(Past)
    /\ call.raw = << <<BadByte>> >> => ret = Some(Past)

C2_Witness ==
  /\ Returned("parse_header", "Expires")
  /\ call.raw = <<TextBogus>>
  /\ ret = Some(Past)

\* C3: Retry-After decode of one field is DateRA(t) whenever the date codec
\* decodes it to t, DeltaRA(n) exactly when the date codec fails and the
\* integer codec decodes it to n, and None when both fail ("foo", "-42").
C3_RetryAfterDateThenDelta ==
  (Returned("parse_header", "RetryAfter") /\ Len(call.raw) = 1) =>
    LET date == Tm_parse_header(call.raw)
        delta == uint_parse_header(call.raw)
    IN  /\ date # None => ret = Some(DateRA(date[1]))
        /\ (date = None /\ delta # None) => ret = Some(DeltaRA(delta[1]))
        /\ (date = None /\ delta = None) => ret = None
        /\ (ret # None /\ ret[1].tag = "DeltaRA") => (date = None /\ delta # None)
        /\ call.raw = <<TextFoo>> => ret = None
        /\ call.raw = <<TextMinus42>> => ret = None
        /\ call.raw = <<Text42>> => ret = Some(DeltaRA(42))

C3_Witness ==
  /\ Returned("parse_header", "RetryAfter")
  /\ call.raw = <<TextMinus42>>
  /\ ret = None

\* C4: for every Timestamp t, also one made in a zone other than UTC,
\* decoding the one field that holds the canonical encoding of t succeeds
\* and gives a value that names the same instant as t.
C4_DateRoundTrip ==
  Returned("fmt_header", "Tm") =>
    LET date == Tm_parse_header(<<ret>>)
    IN  date # None /\ SameInstant(date[1], call.val)

\* C5: decode(encode(v)) = v with the variant kept, for the integer codec
\* and for Retry-After: a DeltaRA(n) comes back as DeltaRA(n), a DateRA(t)
\* as a DateRA of the instant of t.
C5_RoundTrip ==
  /\ Returned("fmt_header", "uint") => uint_parse_header(<<ret>>) = Some(call.val)
  /\ Returned("fmt_header", "RetryAfter") =>
       LET back == RetryAfter_parse_header(<<ret>>)
       IN  /\ back # None
           /\ back[1].tag = call.val.tag
           /\ call.val.tag = "DeltaRA" => back[1] = call.val
           /\ call.val.tag = "DateRA" => SameInstant(back[1].tm, call.val.tm)

AllDigits(s) == \A i \in 1..Len(s) : s[i] \in DigitChars

\* C7: the integer codec decodes one field to n only when the field is a
\* non-empty run of decimal digits whose value fits the word, and gives
\* None for the empty text, a non-digit, a leading '+', a leading '-' and
\* overflow; what it encodes has no leading zero and no '+'.
C7_IntegerCodec ==
  /\ (Returned("parse_header", "uint") /\ Len(call.raw) = 1) =>
       LET field == call.raw[1]
       IN  /\ ret # None =>
                (Len(field) > 0 /\ AllDigits(field) /\ ret[1] < UintModulus)
           /\ (Len(field) > 0 /\ field[1] \in {"+", "-"}) => ret = None
           /\ field = Text42 => ret = Some(42)
           /\ field = TextFoo => ret = None
           /\ ret # None =>
                LET text == uint_fmt_header(ret[1])
                IN  AllDigits(text) /\ (Len(text) > 1 => text[1] # "0")

\* C8: in the header container, get of a name gives None while nothing is
\* set, the value of the last set until the next set or remove of that
\* name, and None after remove; the stored bytes are the encoding of the
\* value; operations on one name leave the others alone.
SameValue(type, a, b) ==
  CASE type = "Tm" -> SameInstant(a, b)
    [] type = "Expires" ->
         a.tag = b.tag /\ (a.tag = "ExpiresDate" => SameInstant(a.tm, b.tm))
    [] type = "RetryAfter" ->
         /\ a.tag = b.tag
         /\ a.delta = b.delta
         /\ a.tag = "DateRA" => SameInstant(a.tm, b.tm)

C8_ContainerGetAfterSet ==
  /\ call.op = "get" =>
       /\ ret = None <=> last_set[call.name] = None
       /\ ret # None => SameValue(call.type, ret[1], last_set[call.name][1])
  /\ \A n \in HeaderNames :
       /\ last_set[n] = None => headers[n] = << >>
       /\ last_set[n] # None =>
            headers[n] = <<Header_fmt_header(HeaderType[n], last_set[n][1])>>

ValidUtf8(bytes) == from_utf8(bytes) # None

\* C9: date decode of one valid UTF-8 field consults the grammars in the
\* order 1 (zone name), 2 (numeric offset), 3 (RFC 850), 4 (asctime), each
\* only when all before it failed, and returns what the lowest numbered
\* accepting grammar gives; it is None iff the field is not valid UTF-8 or
\* no grammar accepts it.
C9_GrammarOrder ==
  (Returned("parse_header", "Tm") /\ Len(call.raw) = 1) =>
    LET field == call.raw[1]
        accepting == {k \in 1..4 : strptime(field, Grammars[k]) # None}
        n == Len(call.tried)
    IN  /\ ret = None <=> (~ValidUtf8(field) \/ accepting = {})
        /\ ~ValidUtf8(field) => call.tried = << >>
        /\ ValidUtf8(field) =>
             /\ n >= 1
             /\ call.tried = [i \in 1..n |-> i]
             /\ \A k \in 1..(n - 1) : k \notin accepting
             /\ accepting # {} =>
                  /\ n \in accepting
                  /\ ret = strptime(field, Grammars[n])
             /\ accepting = {} => n = 4

\* a field grammars 1 and 2 both accept, to different values
C9_Witness ==
  /\ Returned("parse_header", "Tm")
  /\ Len(call.raw) = 1
  /\ call.tried = <<1>>
  /\ strptime(call.raw[1], Grammars[2]) # None
  /\ strptime(call.raw[1], Grammars[2]) # ret

====
